---- MODULE Spec2Model ----
(***************************************************************************)
(* Model of the Student API (src/app.py): one process-wide list of student *)
(* records and the Flask handlers that read and change it.                 *)
(*                                                                         *)
(* Spec     : requests are handled one at a time (each handler is atomic). *)
(* SpecConc : two handler threads run with no synchronization; a handler   *)
(*            is a sequence of steps, one per access to shared objects.    *)
(***************************************************************************)
EXTENDS Integers, Sequences, FiniteSets, TLC

(***************************************************************************)
(* Bounds                                                                  *)
(***************************************************************************)
\* create_student is not offered once the id it would assign exceeds MaxId
MaxId == 3

(***************************************************************************)
(* Values                                                                  *)
(***************************************************************************)
\* keys a client may put in a JSON object body
Keys == {"id", "name", "grade", "email"}

\* the value a client sends under each key
ClientVal == [k \in Keys |->
                CASE k = "id"    -> 1
                  [] k = "name"  -> "Al"
                  [] k = "grade" -> "C"
                  [] k = "email" -> "al@x.com"]

\* the keys create_student requires (app.py:51)
Required == {"name", "grade", "email"}

\* a record of the collection: {"id", "name", "grade", "email"}
Student(i, n, g, e) == [id |-> i, name |-> n, grade |-> g, email |-> e]

\* the module-level list (app.py:14-17)
SeedStudents ==
    << Student(1, "John Doe", "A", "john.doe@example.com"),
       Student(2, "Jane Smith", "B", "jane.smith@example.com") >>

(***************************************************************************)
(* Request bodies.  A body is what flask's request.json has to work on:    *)
(*   absent    : no body / no JSON content type                            *)
(*   malformed : JSON content type, payload does not parse                 *)
(*   null      : the JSON value null                                       *)
(*   number    : a JSON number (num)                                       *)
(*   array     : a JSON array of strings (elems = the strings it holds)    *)
(*   object    : a JSON object (obj = its key/value mapping)               *)
(***************************************************************************)
NoObj == [k \in {} |-> "x"]

Body(kind, obj, elems, num) ==
    [kind |-> kind, obj |-> obj, elems |-> elems, num |-> num]

\* the key sets of the JSON objects a client sends: every choice among the
\* three fields, and two objects that also carry an id
ObjectKeySets == (SUBSET Required) \cup { {"id"}, Keys }

ObjectBodies ==
    { Body("object", [k \in K |-> ClientVal[k]], {}, 0) : K \in ObjectKeySets }

ArrayBodies ==
    { Body("array", NoObj, E, 0) : E \in { {}, Required } }

NumberBodies == { Body("number", NoObj, {}, 1) }

OtherBodies ==
    { Body(k, NoObj, {}, 0) : k \in {"absent", "malformed", "null"} }

Bodies == ObjectBodies \cup ArrayBodies \cup NumberBodies \cup OtherBodies

NoBody == Body("absent", NoObj, {}, 0)

(***************************************************************************)
(* flask / python semantics used by the handlers                           *)
(***************************************************************************)
\* The outcomes of evaluating request.json:
\*   "value" : the parsed JSON value
\*   "none"  : None (the JSON value null; or, with flask < 2.1, a request
\*             whose content type is not JSON)
\*   "415"   : UnsupportedMediaType raised (werkzeug >= 2.3, a request
\*             whose content type is not JSON)
\*   "400"   : BadRequest raised by flask's on_json_loading_failed
RequestJson(body) ==
    CASE body.kind = "absent"    -> {"none", "415"}
      [] body.kind = "malformed" -> {"400"}
      [] body.kind = "null"      -> {"none"}
      [] OTHER                   -> {"value"}

\* python truth value of the parsed body (`not request.json`)
Truthy(body) ==
    CASE body.kind = "object" -> DOMAIN body.obj # {}
      [] body.kind = "array"  -> body.elems # {}
      [] body.kind = "number" -> body.num # 0
      [] OTHER                -> FALSE

\* `key in request.json` raises TypeError on a number
InRaises(body) == body.kind = "number"

\* `key in request.json` for objects and arrays
In(key, body) ==
    CASE body.kind = "object" -> key \in DOMAIN body.obj
      [] body.kind = "array"  -> key \in body.elems
      [] OTHER                -> FALSE

\* request.json.get(key, default); only a dict has .get
Get(body, key, default) ==
    IF key \in DOMAIN body.obj THEN body.obj[key] ELSE default

(***************************************************************************)
(* State                                                                   *)
(***************************************************************************)
VARIABLES
    students,   \* the module-level list `students`
    last,       \* the request handled last and its response
    prev,       \* summary of the request handled before `last`
    issued,     \* ids carried by a record at some time so far
    \* interleaved handling: python objects are explicit
    dicts,      \* the record dictionaries, by reference (position)
    lists,      \* the list objects, by reference; a list holds dict references
    glist,      \* the list object the global name `students` is bound to
    proc        \* the handler threads: position and local variables

seqvars == << students, last, prev, issued >>

concvars == << dicts, lists, glist, proc >>

vars == << students, last, prev, issued, dicts, lists, glist, proc >>

(***************************************************************************)
(* Pure parts of the handlers                                              *)
(***************************************************************************)
\* variant: the lookup is students[student_id - 1]
FirstMatchByPosition(ss, student_id) ==
    IF student_id \in 1..Len(ss) THEN student_id ELSE 0

\* next((s for s in students if s['id'] == student_id), None), as the
\* position of the first match, 0 for None   (app.py:41, app.py:71)
FirstMatch(ss, student_id) ==
    IF \E i \in 1..Len(ss) : ss[i].id = student_id
    THEN CHOOSE i \in 1..Len(ss) :
            /\ ss[i].id = student_id
            /\ \A j \in 1..(i-1) : ss[j].id # student_id
    ELSE 0

\* variant: the id is taken from the number of records
NextIdByCount(ss) == Len(ss) + 1

\* variant: the id is taken from the first record instead of the last
NextIdFromFirst(ss) == IF Len(ss) > 0 THEN ss[1].id + 1 ELSE 1

\* variant: the id follows the highest id handed out so far
NextIdAfterIssued(ss) ==
    (CHOOSE m \in issued \cup {0} : \A n \in issued \cup {0} : n <= m) + 1

\* students[-1]['id'] + 1 if students else 1   (app.py:57)
NextId(ss) == IF Len(ss) > 0 THEN ss[Len(ss)].id + 1 ELSE 1

\* variant: the presence tests are joined by `and`, so the request is
\* rejected only when all three keys are missing
CreateCheckAllMissing(body) ==
    IF ~Truthy(body) THEN "400"
    ELSE IF InRaises(body) THEN "500"
    ELSE IF \A k \in Required : ~In(k, body) THEN "400"
    ELSE "ok"

\* the validation of create_student (app.py:51-52) on a parsed, non-None
\* body: "400" abort, "500" TypeError from `in`, "ok" passes
CreateCheck(body) ==
    IF ~Truthy(body) THEN "400"
    ELSE IF InRaises(body) THEN "500"
    ELSE IF \E k \in Required : ~In(k, body) THEN "400"
    ELSE "ok"

\* the dictionary built at app.py:56-61
NewStudent(ss, body) ==
    Student(NextId(ss), body.obj["name"], body.obj["grade"], body.obj["email"])

\* variant: .get without the default, an absent field becomes None
UpdateFieldsReplace(s, body) ==
    [s EXCEPT !.name  = Get(body, "name", "None"),
              !.grade = Get(body, "grade", "None"),
              !.email = Get(body, "email", "None")]

\* variant: the id is taken from the body as well
UpdateFieldsWithId(s, body) ==
    [s EXCEPT !.id    = Get(body, "id", s.id),
              !.name  = Get(body, "name", s.name),
              !.grade = Get(body, "grade", s.grade),
              !.email = Get(body, "email", s.email)]

\* the three assignments of update_student (app.py:81-83)
UpdateFields(s, body) ==
    [s EXCEPT !.name  = Get(body, "name", s.name),
              !.grade = Get(body, "grade", s.grade),
              !.email = Get(body, "email", s.email)]

\* variant: the filter keeps s['id'] < student_id
WithoutFrom(ss, student_id) == SelectSeq(ss, LAMBDA s : s.id < student_id)

\* variant: student_id is used as a position in the list
WithoutAt(ss, student_id) ==
    IF student_id \in 1..Len(ss)
    THEN SubSeq(ss, 1, student_id - 1) \o SubSeq(ss, student_id + 1, Len(ss))
    ELSE ss

\* [s for s in students if s['id'] != student_id]   (app.py:92)
Without(ss, student_id) == SelectSeq(ss, LAMBDA s : s.id # student_id)

(***************************************************************************)
(* Requests, responses and the initial state                               *)
(***************************************************************************)
\* a response body is a sequence of records: <<>> is the empty body,
\* << s >> one record, and get_students returns the whole list
Request(method, id, body, status, resp, pre) ==
    [method |-> method, id |-> id, body |-> body, status |-> status,
     resp |-> resp, pre |-> pre]

\* what is remembered of the request before `last`: a create that succeeded
\* (with the record it returned), a delete (with its id), or anything else
Summary(r) ==
    IF r.method = "POST" /\ r.status = 201
    THEN [method |-> "POST", id |-> r.resp[1].id, status |-> 201, resp |-> r.resp]
    ELSE IF r.method = "DELETE"
    THEN [method |-> "DELETE", id |-> r.id, status |-> r.status, resp |-> << >>]
    ELSE [method |-> "other", id |-> 0, status |-> 0, resp |-> << >>]

NoRequest == Request("none", 0, NoBody, 0, << >>, << >>)

Ids(ss) == { ss[i].id : i \in 1..Len(ss) }

\* the handler threads
Procs == {"t1", "t2"}

\* a thread that has not received its request
Idle ==
    [pc |-> "idle", method |-> "none", id |-> 0, body |-> NoBody,
     lref |-> 0, idx |-> 0, acc |-> << >>, ref |-> 0, fld |-> 0,
     val |-> "", newid |-> 0, status |-> 0, resp |-> << >>]

Init ==
    /\ students = SeedStudents
    /\ last = NoRequest
    /\ prev = Summary(NoRequest)
    /\ issued = Ids(SeedStudents)
    /\ dicts = SeedStudents
    /\ lists = << << 1, 2 >> >>
    /\ glist = 1
    /\ proc = [p \in Procs |-> Idle]

\* bookkeeping common to all handlers: remember the request and its response
Respond(method, id, body, status, resp) ==
    /\ last' = Request(method, id, body, status, resp, students)
    /\ prev' = Summary(last)
    /\ UNCHANGED concvars

(***************************************************************************)
(* Handlers, one request at a time                                         *)
(***************************************************************************)
\* GET /   (app.py:20-22)
index ==
    /\ Respond("INDEX", 0, NoBody, 200, << >>)
    /\ UNCHANGED << students, issued >>

\* GET /health   (app.py:26-28)
health_check ==
    /\ Respond("HEALTH", 0, NoBody, 200, << >>)
    /\ UNCHANGED << students, issued >>

\* GET /students   (app.py:32-34)
get_students ==
    /\ Respond("LIST", 0, NoBody, 200, students)
    /\ UNCHANGED << students, issued >>

\* variant: the lookup takes the record out of the list (students.pop)
get_student_pop(student_id) ==
    LET i == FirstMatch(students, student_id) IN
    /\ IF i = 0
       THEN /\ Respond("GET", student_id, NoBody, 404, << >>)
            /\ UNCHANGED students
       ELSE /\ Respond("GET", student_id, NoBody, 200, << students[i] >>)
            /\ students' = SubSeq(students, 1, i - 1)
                              \o SubSeq(students, i + 1, Len(students))
    /\ UNCHANGED issued

\* GET /students/<id>   (app.py:38-44)
get_student(student_id) ==
    LET i == FirstMatch(students, student_id) IN
    /\ IF i = 0
       THEN Respond("GET", student_id, NoBody, 404, << >>)
       ELSE Respond("GET", student_id, NoBody, 200, << students[i] >>)
    /\ UNCHANGED << students, issued >>

\* POST /students   (app.py:48-64)
create_student(body) ==
    \E j \in RequestJson(body) :
        LET check == IF j = "value" THEN CreateCheck(body) ELSE "400" IN
        IF j = "415" THEN
            /\ Respond("POST", 0, body, 415, << >>)
            /\ UNCHANGED << students, issued >>
        ELSE IF check = "400" THEN
            /\ Respond("POST", 0, body, 400, << >>)
            /\ UNCHANGED << students, issued >>
        ELSE IF check = "500" \/ body.kind # "object"
                \/ ~(Required \subseteq DOMAIN body.obj) THEN
            \* TypeError: `in` on a number, or request.json['name'] on a list;
            \* KeyError: request.json['name'] on a dict without the key
            /\ Respond("POST", 0, body, 500, << >>)
            /\ UNCHANGED << students, issued >>
        ELSE
            LET new_student == NewStudent(students, body) IN
            /\ new_student.id <= MaxId
            /\ students' = Append(students, new_student)
            /\ issued' = issued \cup {new_student.id}
            /\ Respond("POST", 0, body, 201, << new_student >>)

\* PUT /students/<id>   (app.py:68-84)
update_student(student_id, body) ==
    LET i == FirstMatch(students, student_id) IN
    IF i = 0 THEN
        /\ Respond("PUT", student_id, body, 404, << >>)
        /\ UNCHANGED << students, issued >>
    ELSE \E j \in RequestJson(body) :
        IF j = "415" THEN
            /\ Respond("PUT", student_id, body, 415, << >>)
            /\ UNCHANGED << students, issued >>
        ELSE IF j # "value" \/ ~Truthy(body) THEN
            /\ Respond("PUT", student_id, body, 400, << >>)
            /\ UNCHANGED << students, issued >>
        ELSE IF body.kind # "object" THEN
            \* AttributeError: a list or a number has no .get
            /\ Respond("PUT", student_id, body, 500, << >>)
            /\ UNCHANGED << students, issued >>
        ELSE
            LET student == UpdateFields(students[i], body) IN
            /\ students' = [students EXCEPT ![i] = student]
            /\ Respond("PUT", student_id, body, 200, << student >>)
            /\ UNCHANGED issued

\* DELETE /students/<id>   (app.py:88-93)
delete_student(student_id) ==
    /\ students' = Without(students, student_id)
    /\ Respond("DELETE", student_id, NoBody, 204, << >>)
    /\ UNCHANGED issued

\* the ids a client puts in the path (<int:student_id>)
PathIds == 1..MaxId

Next ==
    \/ index
    \/ health_check
    \/ get_students
    \/ \E student_id \in PathIds : get_student(student_id)
    \/ \E body \in Bodies : create_student(body)
    \/ \E student_id \in PathIds, body \in Bodies : update_student(student_id, body)
    \/ \E student_id \in PathIds : delete_student(student_id)

Spec == Init /\ [][Next]_vars

(***************************************************************************)
(* Handlers as interleaved steps (no synchronization).  A step is one      *)
(* access to a shared object: the global name, a list object or a dict.    *)
(***************************************************************************)
\* the records of the list the global name is bound to
Coll == [i \in 1..Len(lists[glist]) |-> dicts[lists[glist][i]]]

\* the bodies sent in the interleaved runs
ConcBodies ==
    { Body("object", [k \in K |-> ClientVal[k]], {}, 0) : K \in { Required, {"grade"} } }
        \cup { NoBody }

\* variant: the assignment of email is missing
FieldsNoEmail == << "name", "grade" >>

\* the fields update_student assigns, in the order of app.py:81-83
Fields == << "name", "grade", "email" >>

\* the thread ends with a response; its locals are dropped
Finish(p, status, resp) ==
    [Idle EXCEPT !.pc = "done", !.method = proc[p].method, !.id = proc[p].id,
                 !.body = proc[p].body, !.newid = proc[p].newid,
                 !.ref = proc[p].ref, !.status = status, !.resp = resp]

\* variant: students = students + [new_student], a new list is bound
ListConcat(lref, r) ==
    [lists |-> Append(lists, Append(lists[lref], r)), glist |-> Len(lists) + 1]

\* variant: the record goes to the list the global name is bound to at the
\* time of the append, not to the list object loaded before
ListAppendCurrent(lref, r) ==
    [lists |-> [lists EXCEPT ![glist] = Append(@, r)], glist |-> glist]

\* students.append(new_student): the list object is changed in place
ListAppend(lref, r) ==
    [lists |-> [lists EXCEPT ![lref] = Append(@, r)], glist |-> glist]

\* create_student: request received, app.py:51-52
c_begin(p, body) ==
    /\ proc[p].pc = "idle"
    /\ \E j \in RequestJson(body) :
        LET check == IF j = "value" THEN CreateCheck(body) ELSE "400"
            me    == [proc[p] EXCEPT !.method = "POST", !.body = body] IN
        proc' = [proc EXCEPT ![p] =
                    IF j = "415" THEN [me EXCEPT !.pc = "done", !.status = 415]
                    ELSE IF check = "400" THEN [me EXCEPT !.pc = "done", !.status = 400]
                    ELSE IF check = "500" THEN [me EXCEPT !.pc = "done", !.status = 500]
                    ELSE [me EXCEPT !.pc = "c_test"]]
    /\ UNCHANGED << dicts, lists, glist, seqvars >>

\* the record of app.py:56-61 once its id is known; the dict is allocated
c_build(p, id) ==
    IF proc[p].body.kind # "object" \/ ~(Required \subseteq DOMAIN proc[p].body.obj)
    THEN /\ proc' = [proc EXCEPT ![p] = Finish(p, 500, << >>)]
         /\ UNCHANGED dicts
    ELSE /\ id <= MaxId
         /\ dicts' = Append(dicts, Student(id, proc[p].body.obj["name"],
                                    proc[p].body.obj["grade"], proc[p].body.obj["email"]))
         /\ proc' = [proc EXCEPT ![p].pc = "c_aload", ![p].newid = id,
                                 ![p].ref = Len(dicts) + 1, ![p].lref = 0]

\* `if students` of app.py:57
c_test(p) ==
    /\ proc[p].pc = "c_test"
    /\ IF Len(lists[glist]) > 0
       THEN /\ proc' = [proc EXCEPT ![p].pc = "c_load"]
            /\ UNCHANGED dicts
       ELSE c_build(p, 1)
    /\ UNCHANGED << lists, glist, seqvars >>

\* `students` of students[-1] (app.py:57): the global name is read
c_load(p) ==
    /\ proc[p].pc = "c_load"
    /\ proc' = [proc EXCEPT ![p].pc = "c_index", ![p].lref = glist]
    /\ UNCHANGED << dicts, lists, glist, seqvars >>

\* students[-1]['id'] + 1 (app.py:57), then the rest of the dict
c_index(p) ==
    /\ proc[p].pc = "c_index"
    /\ LET l == lists[proc[p].lref] IN
       IF Len(l) = 0
       THEN \* IndexError
            /\ proc' = [proc EXCEPT ![p] = Finish(p, 500, << >>)]
            /\ UNCHANGED dicts
       ELSE c_build(p, dicts[l[Len(l)]].id + 1)
    /\ UNCHANGED << lists, glist, seqvars >>

\* `students` of students.append (app.py:63): the global name is read
c_aload(p) ==
    /\ proc[p].pc = "c_aload"
    /\ proc' = [proc EXCEPT ![p].pc = "c_append", ![p].lref = glist]
    /\ UNCHANGED << dicts, lists, glist, seqvars >>

\* .append(new_student) (app.py:63)
c_append(p) ==
    /\ proc[p].pc = "c_append"
    /\ lists' = ListAppend(proc[p].lref, proc[p].ref).lists
    /\ glist' = ListAppend(proc[p].lref, proc[p].ref).glist
    /\ proc' = [proc EXCEPT ![p].pc = "c_return", ![p].lref = 0]
    /\ UNCHANGED << dicts, seqvars >>

\* return jsonify(new_student), 201 (app.py:64)
c_return(p) ==
    /\ proc[p].pc = "c_return"
    /\ proc' = [proc EXCEPT ![p] = Finish(p, 201, << dicts[proc[p].ref] >>)]
    /\ UNCHANGED << dicts, lists, glist, seqvars >>

\* delete_student: request received, the global name is read for the
\* comprehension of app.py:92
d_begin(p, student_id) ==
    /\ proc[p].pc = "idle"
    /\ proc' = [proc EXCEPT ![p].pc = "d_iter", ![p].method = "DELETE",
                            ![p].id = student_id, ![p].lref = glist]
    /\ UNCHANGED << dicts, lists, glist, seqvars >>

\* one turn of the comprehension of app.py:92
d_iter(p) ==
    /\ proc[p].pc = "d_iter"
    /\ LET l == lists[proc[p].lref] IN
       IF proc[p].idx < Len(l)
       THEN LET r == l[proc[p].idx + 1] IN
            proc' = [proc EXCEPT ![p].idx = @ + 1,
                                 ![p].acc = IF dicts[r].id # proc[p].id
                                            THEN Append(@, r) ELSE @]
       ELSE proc' = [proc EXCEPT ![p].pc = "d_store"]
    /\ UNCHANGED << dicts, lists, glist, seqvars >>

\* students = [...] (app.py:92): the global name is bound to the new list
d_store(p) ==
    /\ proc[p].pc = "d_store"
    /\ lists' = Append(lists, proc[p].acc)
    /\ glist' = Len(lists) + 1
    /\ proc' = [proc EXCEPT ![p] = Finish(p, 204, << >>)]
    /\ UNCHANGED << dicts, seqvars >>

\* update_student: request received, the global name is read for the
\* generator of app.py:71
u_begin(p, student_id, body) ==
    /\ proc[p].pc = "idle"
    /\ proc' = [proc EXCEPT ![p].pc = "u_iter", ![p].method = "PUT",
                            ![p].id = student_id, ![p].body = body,
                            ![p].lref = glist]
    /\ UNCHANGED << dicts, lists, glist, seqvars >>

\* one turn of the generator of app.py:71; on a match, app.py:72-77
u_iter(p) ==
    /\ proc[p].pc = "u_iter"
    /\ LET l == lists[proc[p].lref] IN
       IF proc[p].idx < Len(l)
       THEN LET r == l[proc[p].idx + 1] IN
            IF dicts[r].id # proc[p].id
            THEN proc' = [proc EXCEPT ![p].idx = @ + 1]
            ELSE \E j \in RequestJson(proc[p].body) :
                 proc' = [proc EXCEPT ![p] =
                    IF j = "415" THEN Finish(p, 415, << >>)
                    ELSE IF j # "value" \/ ~Truthy(proc[p].body)
                    THEN Finish(p, 400, << >>)
                    ELSE IF proc[p].body.kind # "object"
                    THEN Finish(p, 500, << >>)
                    ELSE [@ EXCEPT !.pc = "u_read", !.ref = r, !.fld = 1,
                                   !.lref = 0, !.idx = 0]]
       ELSE proc' = [proc EXCEPT ![p] = Finish(p, 404, << >>)]
    /\ UNCHANGED << dicts, lists, glist, seqvars >>

\* request.json.get(field, student[field]) (right-hand sides of app.py:81-83)
u_read(p) ==
    /\ proc[p].pc = "u_read"
    /\ LET k == Fields[proc[p].fld] IN
       proc' = [proc EXCEPT ![p].pc = "u_write",
                            ![p].val = Get(proc[p].body, k, dicts[proc[p].ref][k])]
    /\ UNCHANGED << dicts, lists, glist, seqvars >>

\* student[field] = ... (the assignments of app.py:81-83)
u_write(p) ==
    /\ proc[p].pc = "u_write"
    /\ LET k == Fields[proc[p].fld] IN
       dicts' = [dicts EXCEPT ![proc[p].ref] = [@ EXCEPT ![k] = proc[p].val]]
    /\ proc' = [proc EXCEPT ![p].val = "",
                            ![p].fld = IF @ < Len(Fields) THEN @ + 1 ELSE 0,
                            ![p].pc = IF proc[p].fld < Len(Fields)
                                      THEN "u_read" ELSE "u_return"]
    /\ UNCHANGED << lists, glist, seqvars >>

\* return jsonify(student), 200 (app.py:84)
u_return(p) ==
    /\ proc[p].pc = "u_return"
    /\ proc' = [proc EXCEPT ![p] = Finish(p, 200, << dicts[proc[p].ref] >>)]
    /\ UNCHANGED << dicts, lists, glist, seqvars >>

NextConc ==
    \E p \in Procs :
        \/ \E body \in ConcBodies : c_begin(p, body)
        \/ c_test(p)
        \/ c_load(p)
        \/ c_index(p)
        \/ c_aload(p)
        \/ c_append(p)
        \/ c_return(p)
        \/ \E student_id \in PathIds : d_begin(p, student_id)
        \/ d_iter(p)
        \/ d_store(p)
        \/ \E student_id \in PathIds, body \in ConcBodies : u_begin(p, student_id, body)
        \/ u_iter(p)
        \/ u_read(p)
        \/ u_write(p)
        \/ u_return(p)

SpecConc == Init /\ [][NextConc]_vars

(***************************************************************************)
(* Properties of one-at-a-time handling (Spec)                             *)
(***************************************************************************)
\* the largest id in a non-empty collection
MaxIdOf(ss) == CHOOSE m \in Ids(ss) : \A n \in Ids(ss) : n <= m

\* ss with the record at position i taken out
RemoveAt(ss, i) == SubSeq(ss, 1, i - 1) \o SubSeq(ss, i + 1, Len(ss))

HasAll(body) == body.kind = "object" /\ Required \subseteq DOMAIN body.obj

\* C1: after any sequence of POST, PUT and DELETE requests handled one at a
\* time from the two seed records, no two records of the collection have
\* the same id.
C1_UniqueIds ==
    \A i, j \in 1..Len(students) :
        i # j => students[i].id # students[j].id

\* a create that followed a delete, in a collection of at least two records
C1_Witness ==
    /\ last.method = "POST" /\ last.status = 201
    /\ prev.method = "DELETE"
    /\ Len(students) >= 2

\* C2: a POST whose body has name, grade and email returns, and appends, a
\* record whose id is the maximum id of the collection before the call plus
\* 1, or 1 when the collection was empty.
C2_CreateIdIsMaxPlusOne ==
    (last.method = "POST" /\ HasAll(last.body)) =>
        /\ last.status = 201
        /\ Len(last.resp) = 1
        /\ last.resp[1].id = IF last.pre = << >> THEN 1
                             ELSE MaxIdOf(last.pre) + 1
        /\ students = Append(last.pre, last.resp[1])

\* a create into a collection of two or more records
C2_Witness ==
    /\ last.method = "POST" /\ HasAll(last.body) /\ last.status = 201
    /\ Len(last.pre) >= 2
    /\ last.resp[1].id = MaxIdOf(last.pre) + 1

\* C3: a POST whose JSON object body lacks at least one of name, grade,
\* email returns 400 and leaves the collection exactly as it was.
C3_CreateMissingField ==
    (last.method = "POST" /\ last.body.kind = "object" /\ ~HasAll(last.body)) =>
        /\ last.status = 400
        /\ last.resp = << >>
        /\ students = last.pre

\* POST {"name": ...} without grade and email was rejected
C3_Witness ==
    /\ last.method = "POST" /\ last.body.kind = "object"
    /\ DOMAIN last.body.obj = {"name"}
    /\ last.status = 400
    /\ students = last.pre

\* C4: a successful PUT overwrites, on the record with the id, exactly the
\* fields among name, grade, email that the body has; the other fields of
\* the record and its id keep their values, every other record, the length
\* and the order are unchanged, and the response is 200 with the record as
\* it is after the update.
C4_UpdateFrame ==
    (last.method = "PUT" /\ last.status = 200) =>
        LET i == FirstMatch(last.pre, last.id) IN
        /\ i # 0
        /\ Len(students) = Len(last.pre)
        /\ \A j \in 1..Len(students) : j # i => students[j] = last.pre[j]
        /\ students[i].id = last.id
        /\ \A k \in Required :
              students[i][k] = IF k \in DOMAIN last.body.obj
                               THEN last.body.obj[k]
                               ELSE last.pre[i][k]
        /\ last.resp = << students[i] >>

\* PUT /students/2 with only a grade changed the grade and nothing else
C4_Witness ==
    /\ last.method = "PUT" /\ last.status = 200 /\ last.id = 2
    /\ DOMAIN last.body.obj = {"grade"}
    /\ Len(students) >= 2
    /\ \E i \in 1..Len(students) :
          /\ students[i].id = 2
          /\ students[i].grade # last.pre[i].grade
          /\ students[i].name = last.pre[i].name
          /\ students[i].email = last.pre[i].email

\* C5: a PUT for an existing id fails with 400 only when the body is missing
\* or unparsable; for every body that parses as a JSON object, the empty
\* object included, it returns 200 and the record keeps every field that is
\* absent from the body.
C5_UpdateRejectsOnlyNonJson ==
    (last.method = "PUT" /\ FirstMatch(last.pre, last.id) # 0) =>
        /\ last.status = 400 => last.body.kind \in {"absent", "malformed"}
        /\ last.body.kind = "object" =>
              /\ last.status = 200
              /\ \A k \in Required \ DOMAIN last.body.obj :
                    students[FirstMatch(last.pre, last.id)][k]
                        = last.pre[FirstMatch(last.pre, last.id)][k]

\* C6: DELETE always returns 204; when a record has the id, the collection
\* afterwards is the previous one with exactly that record removed (one
\* shorter, the others in their order), otherwise it is unchanged.
C6_DeleteRemovesOne ==
    last.method = "DELETE" =>
        /\ last.status = 204
        /\ IF last.id \in Ids(last.pre)
           THEN /\ Len(students) = Len(last.pre) - 1
                /\ \E i \in 1..Len(last.pre) :
                      /\ last.pre[i].id = last.id
                      /\ students = RemoveAt(last.pre, i)
           ELSE students = last.pre

\* a record that was neither first nor last was deleted
C6_Witness ==
    /\ last.method = "DELETE" /\ last.status = 204
    /\ Len(last.pre) = 3
    /\ last.pre[2].id = last.id
    /\ students = << last.pre[1], last.pre[3] >>

\* C7: two DELETE requests in a row for the same id both return 204, and
\* the collection after the second equals the collection after the first.
C7_DeleteIdempotent ==
    (prev.method = "DELETE" /\ last.method = "DELETE" /\ last.id = prev.id) =>
        /\ prev.status = 204
        /\ last.status = 204
        /\ students = last.pre

\* the same id was deleted twice in a row, and other records remain
C7_Witness ==
    /\ prev.method = "DELETE" /\ last.method = "DELETE" /\ last.id = prev.id
    /\ last.id \in issued
    /\ last.id \notin Ids(students)
    /\ students # << >>

\* C8: a GET /students/{id} right after a successful POST, with the id the
\* POST returned, returns 200 and the record the POST returned.
C8_GetAfterCreate ==
    (prev.method = "POST" /\ last.method = "GET" /\ last.id = prev.id) =>
        /\ last.status = 200
        /\ last.resp = prev.resp

\* the created record was read back, after an id had been issued twice
C8_Witness ==
    /\ prev.method = "POST" /\ last.method = "GET" /\ last.id = prev.id
    /\ last.status = 200
    /\ last.resp = prev.resp
    /\ Len(students) >= 2
    /\ students[Len(students)] = last.resp[1]

\* C10: when the record with the highest id has just been deleted, the next
\* request, if it is a successful POST, returns an id that an earlier
\* record, no longer in the collection, already carried.
C10_IdReuse ==
    [][ ( /\ last.method = "DELETE"
          /\ last.pre # << >>
          /\ last.id = MaxIdOf(last.pre)
          /\ last'.method = "POST"
          /\ last'.status = 201 )
        => /\ last'.resp[1].id \in issued
           /\ last'.resp[1].id \notin Ids(students) ]_vars

\* seed record 2 was deleted and the next create returned id 2 again
C10_Witness ==
    /\ prev.method = "DELETE" /\ prev.id = 2
    /\ last.method = "POST" /\ last.status = 201
    /\ Len(last.pre) = 1 /\ last.pre[1].id = 1
    /\ last.resp[1].id = 2
    /\ students[2].id = 2
    /\ students[2] # SeedStudents[2]

(***************************************************************************)
(* Properties of interleaved handling (SpecConc)                           *)
(***************************************************************************)
\* thread p is a create that has appended its record
Appended(p) ==
    /\ proc[p].method = "POST"
    /\ \/ proc[p].pc = "c_return"
       \/ proc[p].pc = "done" /\ proc[p].status = 201

\* C9: two POST handlers run with no synchronization; when both read the
\* same last id before either appends, both append, and the collection then
\* holds two records with the same id.
C9_RacingCreatesDuplicateId ==
    ( /\ Appended("t1") /\ Appended("t2")
      /\ proc["t1"].newid = proc["t2"].newid )
    => \E i, j \in 1..Len(Coll) :
          /\ i < j
          /\ Coll[i].id = proc["t1"].newid
          /\ Coll[j].id = proc["t1"].newid

\* both creates returned 201 with id 3 and the collection has id 3 twice
C9_Witness ==
    /\ \A p \in Procs : /\ proc[p].method = "POST" /\ proc[p].pc = "done"
                        /\ proc[p].status = 201 /\ proc[p].resp[1].id = 3
    /\ Len(Coll) = 4
    /\ Coll[3].id = 3 /\ Coll[4].id = 3

\* the dict references a list holds
Refs(l) == { l[i] : i \in 1..Len(l) }

\* C11: a POST and a DELETE for a different id run with no synchronization.
\* The POST appends to the list object it loaded: when the DELETE has
\* rebound the global name in between, the record does not enter the
\* collection; and when the DELETE built its filtered copy before the
\* append, binding the copy drops the record.  The POST still returns 201.
C11_LostCreate ==
    [][ \A p, q \in Procs :
          /\ ( /\ proc[p].pc = "c_append"
               /\ proc'[p].pc = "c_return"
               /\ proc[p].lref # glist )
             => proc[p].ref \notin Refs(lists'[glist'])
          /\ ( /\ proc[q].pc = "d_store"
               /\ proc'[q].pc = "done"
               /\ Appended(p)
               /\ proc[p].ref \notin Refs(proc[q].acc) )
             => proc[p].ref \notin Refs(lists'[glist']) ]_vars

\* the POST returned 201 with record 3, the DELETE was for id 1, both have
\* finished, and the collection holds only record 2
C11_Witness ==
    \E p, q \in Procs :
        /\ proc[p].method = "POST" /\ proc[p].pc = "done"
        /\ proc[p].status = 201 /\ proc[p].resp[1].id = 3
        /\ proc[q].method = "DELETE" /\ proc[q].pc = "done" /\ proc[q].id = 1
        /\ proc[p].ref \notin Refs(lists[glist])
        /\ Len(Coll) = 1 /\ Coll[1].id = 2

(***************************************************************************)
(* Error outcomes under one-at-a-time handling (Spec)                      *)
(***************************************************************************)
\* C12: PUT checks existence before the body: with no record of the id it
\* returns 404 whatever the body is; with the record present and the body
\* missing or unparsable it returns 400.  In both cases the collection is
\* unchanged.
C12_UpdateNotFoundBeforeBody ==
    last.method = "PUT" =>
        /\ FirstMatch(last.pre, last.id) = 0 =>
              /\ last.status = 404
              /\ students = last.pre
        /\ ( /\ FirstMatch(last.pre, last.id) # 0
             /\ last.body.kind \in {"absent", "malformed"} ) =>
              /\ last.status = 400
              /\ students = last.pre

\* C13: a POST whose body is missing or is not a JSON object fails with 400
\* and leaves the collection unchanged; 400 and 404 are the only failure
\* statuses any handler produces.
C13_OnlyBadRequestAndNotFound ==
    /\ (last.method = "POST" /\ last.body.kind # "object") =>
          /\ last.status = 400
          /\ students = last.pre
    /\ last.status \in {0, 200, 201, 204, 400, 404}

(***************************************************************************)
(* Lookups under one-at-a-time handling (Spec)                             *)
(***************************************************************************)
\* C14: after a DELETE of an id, GET for that id returns 404 until a later
\* successful POST returns that id: a DELETE leaves no record of its id, a
\* GET right after it returns 404, an id that is not in the collection can
\* only come back as the id returned by a successful POST, and a GET for an
\* id that is not in the collection returns 404.
C14_GoneUntilRecreated ==
    /\ [](last.method = "DELETE" => last.id \notin Ids(students))
    /\ []((prev.method = "DELETE" /\ last.method = "GET" /\ last.id = prev.id)
            => (last.status = 404 /\ last.resp = << >>))
    /\ []((last.method = "GET" /\ last.id \notin Ids(last.pre))
            => last.status = 404)
    /\ [][ \A id \in PathIds :
             (id \notin Ids(students) /\ id \in Ids(students'))
             => /\ last'.method = "POST"
                /\ last'.status = 201
                /\ last'.resp[1].id = id ]_vars

\* seed record 1 was deleted and the GET that followed returned 404, with
\* other records still in the collection
C14_Witness ==
    /\ prev.method = "DELETE" /\ prev.id = 1
    /\ last.method = "GET" /\ last.id = 1 /\ last.status = 404
    /\ 1 \in issued
    /\ students # << >>

\* C15: GET /students/{id} returns 200 with the record exactly when a
\* record with the id is in the collection, and 404 otherwise; so it
\* returns 404 for every id that is neither a seed id nor an id a
\* successful POST has returned.
C15_GetFoundIffPresent ==
    last.method = "GET" =>
        /\ IF last.id \in Ids(last.pre)
           THEN /\ last.status = 200
                /\ Len(last.resp) = 1
                /\ last.resp[1].id = last.id
                /\ \E i \in 1..Len(last.pre) : last.pre[i] = last.resp[1]
           ELSE /\ last.status = 404
                /\ last.resp = << >>
        /\ last.id \notin issued => last.status = 404

\* GET for id 3, which no record has carried, returned 404 after other
\* requests had changed the collection
C15_Witness ==
    /\ last.method = "GET" /\ last.id = 3 /\ last.status = 404
    /\ 3 \notin issued
    /\ students # SeedStudents

\* C16: ids are assigned by the service and never change: the id of a
\* created record is the last id plus 1 (1 in an empty collection) also when
\* the POST body carries an id, a PUT leaves the id of every record as it
\* was also when its body carries an id, and every id in the collection is
\* an integer of at least 1.
C16_IdsServiceAssigned ==
    /\ \A i \in 1..Len(students) :
          students[i].id \in Nat /\ students[i].id >= 1
    /\ (last.method = "POST" /\ last.status = 201) =>
          last.resp[1].id = IF last.pre = << >> THEN 1
                            ELSE last.pre[Len(last.pre)].id + 1
    /\ last.method = "PUT" =>
          /\ Len(students) = Len(last.pre)
          /\ \A i \in 1..Len(students) : students[i].id = last.pre[i].id

\* PUT /students/2 with a body that carries id 1 returned record 2
C16_Witness ==
    /\ last.method = "PUT" /\ last.status = 200 /\ last.id = 2
    /\ "id" \in DOMAIN last.body.obj
    /\ last.body.obj["id"] = 1
    /\ last.resp[1].id = 2
    /\ \E i \in 1..Len(students) : students[i] = last.resp[1]

\* C17: under one-at-a-time handling the collection is strictly increasing
\* in id from the first record to the last, so the id of the last record,
\* which create_student reads, is the maximum id of the collection.
C17_StrictlyIncreasingIds ==
    /\ \A i \in 1..Len(students) : \A j \in 1..Len(students) :
          i < j => students[i].id < students[j].id
    /\ students # << >> => students[Len(students)].id = MaxIdOf(students)

\* a collection that no longer starts at id 1 and has been updated
C17_Witness ==
    /\ Len(students) >= 2
    /\ students[1].id > 1
    /\ last.method = "PUT" /\ last.status = 200

\* C18: GET /students always returns 200 with every record of the
\* collection in its current order (the empty array for the empty
\* collection), and no GET request (/, /health, /students, /students/{id})
\* changes the collection, whether it returns 200 or 404.
C18_ReadsLeaveCollection ==
    /\ last.method = "LIST" =>
          /\ last.status = 200
          /\ last.resp = last.pre
    /\ last.method \in {"INDEX", "HEALTH"} => last.status = 200
    /\ last.method \in {"INDEX", "HEALTH", "LIST", "GET"} =>
          students = last.pre

\* GET /students returned a collection that deletes and a create had
\* changed, in its order
C18_Witness ==
    /\ last.method = "LIST" /\ last.status = 200
    /\ last.resp = students
    /\ Len(students) = 2
    /\ students[1].id = 2 /\ students[2].id = 3

====
